---- MODULE Spec2Model ----
(***************************************************************************)
(* Model of vm_pcloud_sync.py: a command-line script that assembles and    *)
(* runs one rclone copy/sync/bisync command per --src entry.               *)
(*                                                                         *)
(* A Python string is a sequence of tokens.  A token is either one of the  *)
(* characters the script looks at ("/", ":", ".", "~", "-") or a word      *)
(* that contains none of them, so rstrip("/"), split(":", 1),              *)
(* Path.resolve(), Path.name and Path.as_posix() are computed on the       *)
(* tokens exactly as Python computes them on the characters.  An argument  *)
(* vector is a sequence of such strings.                                   *)
(***************************************************************************)
EXTENDS Integers, Sequences, FiniteSets, TLC

VARIABLES
    args,       \* the parsed options (argparse Namespace), fixed after parse_args()
    found,      \* environment: shutil.which("rclone") finds the binary
    fs,         \* environment: kind of every local path a source resolves to
    pc,         \* where main() is: start, probe, loop, running, done, exit, crashed
    idx,        \* position of the for loop in args.src (1-based)
    clock,      \* wall-clock seconds, advancing while an external process runs
    ts,         \* the timestamp string computed once at line 105
    calls,      \* every subprocess.run() made so far, in order
    errors,     \* every line printed to stderr so far, in order
    mkdirs,     \* every Path.mkdir() the script has called, in order
    status,     \* per source: pending, skipped, running, ok, failed, crashed
    seen,       \* per source: what its local path was when the loop reached it
    exit_code   \* process exit status, NoRc while the script is running

vars == <<args, found, fs, pc, idx, clock, ts, calls, errors, mkdirs, status, seen,
          exit_code>>

(***************************************************************************)
(* Bounds of the model.                                                    *)
(***************************************************************************)
MaxSrc == 2     \* longest --src list
MaxPat == 2     \* longest --exclude list and longest --include list

(***************************************************************************)
(* Strings.                                                                *)
(***************************************************************************)
Lit(w) == <<w>>

NoRc == 0 - 1     \* the returncode of a process that has not finished

Max(a, b) == IF a > b THEN a ELSE b
Min(a, b) == IF a < b THEN a ELSE b

Contains(s, c) == \E i \in 1..Len(s) : s[i] = c

Find(s, c) == CHOOSE i \in 1..Len(s) : s[i] = c /\ \A j \in 1..(i - 1) : s[j] # c

\* str.rstrip(c)
RECURSIVE rstrip(_, _)
rstrip(s, c) ==
    IF s # <<>> /\ s[Len(s)] = c THEN rstrip(SubSeq(s, 1, Len(s) - 1), c) ELSE s

\* str.split(c): the segments between the occurrences of c, empty ones kept
RECURSIVE split(_, _)
split(s, c) ==
    IF ~Contains(s, c) THEN <<s>>
    ELSE LET i == Find(s, c)
         IN  <<SubSeq(s, 1, i - 1)>> \o split(SubSeq(s, i + 1, Len(s)), c)

\* c.join(parts)
RECURSIVE join(_, _)
join(parts, c) ==
    IF parts = <<>> THEN <<>>
    ELSE IF Len(parts) = 1 THEN parts[1]
    ELSE parts[1] \o <<c>> \o join(Tail(parts), c)

RECURSIVE LeadingSlashes(_)
LeadingSlashes(s) ==
    IF s # <<>> /\ s[1] = "/" THEN 1 + LeadingSlashes(Tail(s)) ELSE 0

IsNamePart(p) == p # <<>> /\ p # <<".">>

\* PurePosixPath(s).parts without the anchor: empty and "." segments are dropped
path_parts(s) == SelectSeq(split(s, "/"), IsNamePart)

\* PurePosixPath anchor: "//" is kept, any other run of leading slashes is "/"
path_anchor(s) ==
    LET n == LeadingSlashes(s)
    IN  IF n = 2 THEN <<"/", "/">> ELSE IF n >= 1 THEN <<"/">> ELSE <<>>

\* Path(s).as_posix()
as_posix(s) ==
    LET r == path_anchor(s) \o join(path_parts(s), "/")
    IN  IF r = <<>> THEN <<".">> ELSE r

\* Path(s).name
path_name(s) ==
    LET ps == path_parts(s) IN IF ps = <<>> THEN <<>> ELSE ps[Len(ps)]

(***************************************************************************)
(* The environment of the process.                                         *)
(***************************************************************************)
Home == <<"/", "home", "/", "u">>
Cwd  == <<"/", "work">>
RclonePath == Lit("/usr/bin/rclone")

\* os.path.expanduser(s)
expanduser(s) ==
    IF s # <<>> /\ s[1] = "~" /\ (Len(s) = 1 \/ s[2] = "/") THEN Home \o Tail(s) ELSE s

RECURSIVE collapse(_, _)
collapse(parts, acc) ==
    IF parts = <<>> THEN acc
    ELSE LET p == Head(parts)
         IN  IF ~IsNamePart(p) THEN collapse(Tail(parts), acc)
             ELSE IF p = <<"..">>
                  THEN collapse(Tail(parts),
                                IF acc = <<>> THEN acc ELSE SubSeq(acc, 1, Len(acc) - 1))
                  ELSE collapse(Tail(parts), Append(acc, p))

\* Path(os.path.expanduser(s)).resolve() on a file system without symbolic links
resolve(s) ==
    LET e == expanduser(s)
        a == IF e # <<>> /\ e[1] = "/" THEN e ELSE Cwd \o <<"/">> \o e
    IN  <<"/">> \o join(collapse(split(a, "/"), <<>>), "/")

\* datetime.now().strftime("%Y%m%d_%H%M%S") at second c of the run
Stamps == << "20261103_120000", "20261103_120001", "20261103_120002",
             "20261103_120003", "20261103_120004", "20261103_120005" >>
strftime(c) == Stamps[Min(c, Len(Stamps))]
Tick(c) == IF c < Len(Stamps) THEN c + 1 ELSE c

(***************************************************************************)
(* Options and inputs.                                                     *)
(***************************************************************************)
DEFAULT_EXCLUDES ==
    << Lit("/**/.git/**"), Lit("/**/.venv/**"), Lit("/**/venv/**"),
       Lit("/**/__pycache__/**"), Lit("/**/.mypy_cache/**"),
       Lit("/**/.pytest_cache/**"), Lit("/**/*.pyc"), Lit("/**/*.pyo") >>

Modes == {"copy", "sync", "bisync"}
ConflictChoices == {"none", "newer", "older", "path1", "path2", "larger", "smaller"}
Kinds == {"missing", "file", "dir"}

\* --src values: "~/TradingHub", "/data/a/" and "proj"
SrcHome == <<"~", "/", "TradingHub">>
SrcAbs  == <<"/", "data", "/", "a", "/">>
SrcRel  == <<"proj">>
SrcInputs == {SrcHome, SrcAbs, SrcRel}
LocalPaths == {resolve(s) : s \in SrcInputs}

\* --dest values: "pcloud:TradingHub", "pcloud:bk/vm/", "pcloud:", "./backup", ":mem:x"
DestDefault == <<"pcloud", ":", "TradingHub">>
DestSlash   == <<"pcloud", ":", "bk", "/", "vm", "/">>
DestRoot    == <<"pcloud", ":">>
DestLocal   == <<".", "/", "backup">>
DestOnTheFly == <<":", "mem", ":", "x">>
Dests == {DestDefault, DestSlash, DestRoot, DestLocal, DestOnTheFly}

\* --name values: absent (None) and "nm"
NameNone == <<>>
Names == {NameNone, <<"nm">>}

\* --exclude / --include values
Patterns == {Lit("*.tmp"), Lit("/logs/**")}

\* what the external process does: exits 0, exits 1, or the user presses Ctrl-C
Outcomes == {"ok", "fail", "interrupt"}

SeqsUpTo(S, n) == UNION {[1..k -> S] : k \in 0..n}
SrcLists(S) == SeqsUpTo(S, MaxSrc) \ {<<>>}          \* nargs="+"

DefaultArgs ==
    [ src |-> <<Home \o <<"/", "TradingHub">>>>, dest |-> DestDefault, mode |-> "copy",
      reverse |-> FALSE, name |-> NameNone, snapshot |-> FALSE, dry_run |-> FALSE,
      fast |-> FALSE, verbose |-> 1, no_default_excludes |-> FALSE,
      exclude |-> <<>>, include |-> <<>>, resync |-> FALSE,
      conflict_resolve |-> "newer" ]

\* Four families of command lines: each varies one group of options and
\* leaves the others at the defaults parse_args() gives them.
ControlArgs ==
    { [DefaultArgs EXCEPT !.src = s, !.dest = d, !.mode = m, !.reverse = r,
                          !.snapshot = sn] :
        s \in SrcLists({SrcAbs, SrcRel}), d \in {DestDefault, DestLocal, DestOnTheFly},
        m \in Modes, r \in BOOLEAN, sn \in BOOLEAN }

PathArgs ==
    { [DefaultArgs EXCEPT !.src = s, !.dest = d, !.mode = m, !.reverse = r,
                          !.snapshot = sn, !.name = nm] :
        s \in SrcLists({SrcHome, SrcRel}),
        d \in {DestDefault, DestSlash, DestRoot, DestLocal},
        m \in Modes, r \in BOOLEAN, sn \in BOOLEAN, nm \in Names }

FlagArgs ==
    { [DefaultArgs EXCEPT !.mode = m, !.reverse = r, !.resync = rs,
                          !.conflict_resolve = cr, !.dry_run = dr, !.fast = fa,
                          !.verbose = v] :
        m \in Modes, r \in BOOLEAN, rs \in BOOLEAN, cr \in ConflictChoices,
        dr \in BOOLEAN, fa \in BOOLEAN, v \in {1, 2, 5} }

FilterArgs ==
    { [DefaultArgs EXCEPT !.mode = m, !.resync = rs, !.no_default_excludes = nd,
                          !.exclude = ex, !.include = inc] :
        m \in Modes, rs \in BOOLEAN, nd \in BOOLEAN,
        ex \in SeqsUpTo(Patterns, MaxPat), inc \in SeqsUpTo(Patterns, MaxPat) }

AllDirs == [p \in LocalPaths |-> "dir"]
SomeDirs == {f \in [LocalPaths -> Kinds] : f[resolve(SrcHome)] = "dir"}

(***************************************************************************)
(* The functions of the script.                                            *)
(***************************************************************************)
\* faulty variant: never exits
which_or_die_never(f) == FALSE

\* which_or_die: TRUE when the script exits with status 2
which_or_die(f) == ~f

\* faulty variant: split without the `":" in dest` test
remote_name_unguarded(dest) ==
    IF Contains(dest, ":") THEN SubSeq(dest, 1, Find(dest, ":") - 1) ELSE dest

\* remote_name: the text before the first ":", None (empty) without a ":"
remote_name(dest) ==
    IF Contains(dest, ":") THEN SubSeq(dest, 1, Find(dest, ":") - 1) ELSE <<>>

\* faulty variant: KeyboardInterrupt is not caught
run_uncaught(outcome) ==
    CASE outcome = "ok"        -> [raised |-> FALSE, rc |-> 0]
      [] outcome = "fail"      -> [raised |-> FALSE, rc |-> 1]
      [] outcome = "interrupt" -> [raised |-> TRUE, rc |-> NoRc]

\* run: the return code, or the exception that leaves run()
run(outcome) ==
    CASE outcome = "ok"        -> [raised |-> FALSE, rc |-> 0]
      [] outcome = "fail"      -> [raised |-> FALSE, rc |-> 1]
      [] outcome = "interrupt" -> [raised |-> FALSE, rc |-> 130]

Flagged(flag, pats) == [i \in 1..(2 * Len(pats)) |->
                           IF i % 2 = 1 THEN Lit(flag) ELSE pats[i \div 2]]

\* faulty variant: the user's includes come before the user's excludes
build_filter_args_includes_first(use_defaults, extra_excludes, extra_includes) ==
    (IF use_defaults THEN Flagged("--exclude", DEFAULT_EXCLUDES) ELSE <<>>)
        \o Flagged("--include", extra_includes)
        \o Flagged("--exclude", extra_excludes)

build_filter_args(use_defaults, extra_excludes, extra_includes) ==
    (IF use_defaults THEN Flagged("--exclude", DEFAULT_EXCLUDES) ELSE <<>>)
        \o Flagged("--exclude", extra_excludes)
        \o Flagged("--include", extra_includes)

vflags(verbose) == [i \in 1..Max(1, Min(verbose, 3)) |-> Lit("-v")]

common(a) ==
    <<Lit("-P"), Lit("--stats-one-line"), Lit("--stats"), Lit("10s")>>
        \o vflags(a.verbose)
        \o (IF a.dry_run THEN <<Lit("-n")>> ELSE <<>>)
        \o (IF a.fast THEN <<Lit("--fast-list")>> ELSE <<>>)

\* Path.mkdir(parents=True, exist_ok=True): TRUE when it returns, FALSE when
\* it raises; os_allows is whether the OS lets a missing directory be made
mkdir(kind, os_allows) ==
    CASE kind = "dir"     -> TRUE
      [] kind = "file"    -> FALSE
      [] kind = "missing" -> os_allows

\* faulty variant: the forward direction does not test is_dir
check_local_unchecked(reverse, is_dir, mkdir_ok) ==
    IF ~reverse THEN "go"
    ELSE IF mkdir_ok THEN "go" ELSE "cannot_create"

\* faulty variant: a failing mkdir is swallowed and the source goes on
check_local_ignores_mkdir(reverse, is_dir, mkdir_ok) ==
    IF ~reverse
    THEN IF is_dir THEN "go" ELSE "not_a_directory"
    ELSE "go"

\* lines 120-130: "go", or the reason the source is skipped
check_local(reverse, is_dir, mkdir_ok) ==
    IF ~reverse
    THEN IF is_dir THEN "go" ELSE "not_a_directory"
    ELSE IF mkdir_ok THEN "go" ELSE "cannot_create"

\* faulty variant: basename nesting takes precedence over --name
base_name_multi_first(name, multi_src, src_local) ==
    IF multi_src THEN path_name(src_local)
    ELSE IF name # <<>> THEN name
    ELSE <<>>

\* lines 135-140
base_name(name, multi_src, src_local) ==
    IF name # <<>> THEN name
    ELSE IF multi_src THEN path_name(src_local)
    ELSE <<>>

\* lines 146-149 and 157-160
nested(dest_root, base) ==
    IF base # <<>> THEN dest_root \o <<"/">> \o base ELSE dest_root

\* faulty variant: --snapshot also applies to bisync
snapshot_applies_any_mode(mode, snapshot) == snapshot

\* lines 151 and 162
snapshot_applies(mode, snapshot) == mode \in {"copy", "sync"} /\ snapshot

\* lines 152 and 163
snapshot_path(p, t) == rstrip(as_posix(p), "/") \o <<"-", t>>

\* line 177
bisync_paths(real_src, real_dest, reverse) ==
    IF ~reverse THEN <<real_src, real_dest>> ELSE <<real_dest, real_src>>

\* list.insert(i, x), i counted from 0
insert(l, i, x) == SubSeq(l, 1, i) \o <<x>> \o SubSeq(l, i + 1, Len(l))

\* faulty variant: --resync is inserted whether or not it was passed
with_resync_always(cmd, resync) == insert(cmd, 2, Lit("--resync"))

\* line 187: --resync goes right after the subcommand
with_resync(cmd, resync) == IF resync THEN insert(cmd, 2, Lit("--resync")) ELSE cmd

bisync_tail(conflict_resolve) ==
    << Lit("--check-access"), Lit("--compare"), Lit("size,modtime"),
       Lit("--create-empty-src-dirs"), Lit("--resilient"), Lit("--recover"),
       Lit("--conflict-resolve"), Lit(conflict_resolve) >>

\* lines 173-187
assemble(a, real_src, real_dest, fx) ==
    IF a.mode \in {"copy", "sync"}
    THEN <<RclonePath, Lit(a.mode), real_src, real_dest>> \o common(a) \o fx
             \o <<Lit("--create-empty-src-dirs")>>
    ELSE LET p == bisync_paths(real_src, real_dest, a.reverse)
         IN  with_resync(<<RclonePath, Lit("bisync"), p[1], p[2]>> \o common(a) \o fx
                             \o bisync_tail(a.conflict_resolve),
                         a.resync)

\* lines 132-167: the two path arguments of a source, and the snapshot
\* directory the script itself creates (empty when it creates none)
paths(a, src_local, t) ==
    LET dest_root == rstrip(a.dest, "/")
        base == base_name(a.name, Len(a.src) > 1, src_local)
        remote == nested(dest_root, base)
        snap == snapshot_applies(a.mode, a.snapshot)
    IN  IF ~a.reverse
        THEN [real_src |-> src_local,
              real_dest |-> IF snap THEN snapshot_path(remote, t) ELSE remote,
              snapdir |-> <<>>]
        ELSE [real_src |-> remote,
              real_dest |-> IF snap THEN snapshot_path(src_local, t) ELSE src_local,
              snapdir |-> IF snap THEN snapshot_path(src_local, t) ELSE <<>>]

\* faulty variant: the loop stops after the first source it handles
after_source_stop(i, n) == "done"

\* line 115: where the for loop goes after source i
after_source(i, n) == IF i >= n THEN "done" ELSE "loop"

(***************************************************************************)
(* The state machine of main().                                            *)
(***************************************************************************)
InitWith(A, F) ==
    /\ args \in A
    /\ found \in BOOLEAN
    /\ fs \in F
    /\ pc = "start"
    /\ idx = 1
    /\ clock = 1
    /\ ts = <<>>
    /\ calls = <<>>
    /\ errors = <<>>
    /\ mkdirs = <<>>
    /\ status = [i \in 1..Len(args.src) |-> "pending"]
    /\ seen = [i \in 1..Len(args.src) |-> "unknown"]
    /\ exit_code = NoRc

Init ==
    \/ InitWith(ControlArgs, SomeDirs)
    \/ InitWith(PathArgs, {AllDirs})
    \/ InitWith(FlagArgs, {AllDirs})
    \/ InitWith(FilterArgs, {AllDirs})

Call(i, cmd) == [src |-> i, cmd |-> cmd, rc |-> NoRc, how |-> "running"]
Returned(rc, how) == [calls EXCEPT ![Len(calls)].rc = rc, ![Len(calls)].how = how]
Finish(p) == exit_code' = IF p = "done" THEN 0 ELSE NoRc

\* lines 96-113 up to the first blocking call
Start ==
    /\ pc = "start"
    /\ UNCHANGED <<args, found, fs, idx, clock, mkdirs, status, seen>>
    /\ IF which_or_die(found)
       THEN /\ pc' = "exit"
            /\ exit_code' = 2
            /\ errors' = Append(errors, [src |-> 0, msg |-> "rclone_not_found"])
            /\ UNCHANGED <<calls, ts>>
       ELSE LET rn == remote_name(args.dest)
            IN  IF rn # <<>>
                THEN /\ pc' = "probe"
                     /\ calls' = Append(calls,
                                   Call(0, <<RclonePath, Lit("about"), rn \o <<":">>>>))
                     /\ UNCHANGED <<ts, errors, exit_code>>
                ELSE /\ pc' = "loop"
                     /\ ts' = strftime(clock)
                     /\ UNCHANGED <<calls, errors, exit_code>>

\* lines 103-113: `rclone about` returns, its code is ignored
ProbeDone ==
    /\ pc = "probe"
    /\ \E outcome \in Outcomes :
         LET r == run(outcome)
         IN  /\ clock' = Tick(clock)
             /\ IF r.raised
                THEN /\ pc' = "crashed"
                     /\ exit_code' = 1
                     /\ UNCHANGED <<calls, ts>>
                ELSE /\ pc' = "loop"
                     /\ calls' = Returned(r.rc, outcome)
                     /\ ts' = strftime(clock')
                     /\ UNCHANGED exit_code
    /\ UNCHANGED <<args, found, fs, idx, errors, mkdirs, status, seen>>

\* lines 115-190: one pass of the loop body up to subprocess.run
LoopStep ==
    /\ pc = "loop"
    /\ \E os_allows \in BOOLEAN, os_allows_snap \in BOOLEAN :
         LET src_local == resolve(args.src[idx])
             made_ok == mkdir(fs[src_local], os_allows)
             chk == check_local(args.reverse, fs[src_local] = "dir", made_ok)
             p == paths(args, src_local, ts)
             fx == build_filter_args(~args.no_default_excludes, args.exclude,
                                     args.include)
             made == IF args.reverse
                     THEN Append(mkdirs, [src |-> idx, path |-> src_local, ok |-> made_ok])
                     ELSE mkdirs
         IN  /\ seen' = [seen EXCEPT ![idx] = fs[src_local]]
             /\ IF chk # "go"
                THEN /\ errors' = Append(errors, [src |-> idx, msg |-> chk])
                     /\ status' = [status EXCEPT ![idx] = "skipped"]
                     /\ idx' = idx + 1
                     /\ pc' = after_source(idx, Len(args.src))
                     /\ Finish(pc')
                     /\ mkdirs' = made
                     /\ UNCHANGED <<fs, calls>>
                ELSE /\ fs' = IF args.reverse /\ made_ok
                               THEN [fs EXCEPT ![src_local] = "dir"] ELSE fs
                     /\ UNCHANGED errors
                     /\ IF p.snapdir # <<>> /\ ~os_allows_snap
                        THEN \* line 165 raises: nothing catches it
                             /\ mkdirs' = Append(made, [src |-> idx,
                                                        path |-> p.snapdir, ok |-> FALSE])
                             /\ status' = [status EXCEPT ![idx] = "crashed"]
                             /\ pc' = "crashed"
                             /\ exit_code' = 1
                             /\ UNCHANGED <<calls, idx>>
                        ELSE /\ mkdirs' = IF p.snapdir # <<>>
                                          THEN Append(made, [src |-> idx,
                                                             path |-> p.snapdir, ok |-> TRUE])
                                          ELSE made
                             /\ calls' = Append(calls,
                                           Call(idx, assemble(args, p.real_src, p.real_dest, fx)))
                             /\ status' = [status EXCEPT ![idx] = "running"]
                             /\ pc' = "running"
                             /\ UNCHANGED <<idx, exit_code>>
    /\ UNCHANGED <<args, found, clock, ts>>

\* lines 190-194: the command of the current source returns
RunDone ==
    /\ pc = "running"
    /\ \E outcome \in Outcomes :
         LET r == run(outcome)
         IN  /\ clock' = Tick(clock)
             /\ IF r.raised
                THEN /\ pc' = "crashed"
                     /\ exit_code' = 1
                     /\ status' = [status EXCEPT ![idx] = "crashed"]
                     /\ UNCHANGED <<calls, errors, idx>>
                ELSE /\ calls' = Returned(r.rc, outcome)
                     /\ status' = [status EXCEPT ![idx] = IF r.rc = 0 THEN "ok" ELSE "failed"]
                     /\ errors' = IF r.rc = 0 THEN errors
                                  ELSE Append(errors, [src |-> idx, msg |-> "failed"])
                     /\ idx' = idx + 1
                     /\ pc' = after_source(idx, Len(args.src))
                     /\ Finish(pc')
    /\ UNCHANGED <<args, found, fs, ts, mkdirs, seen>>

Next == Start \/ ProbeDone \/ LoopStep \/ RunDone

Spec == Init /\ [][Next]_vars

TypeOK ==
    /\ pc \in {"start", "probe", "loop", "running", "done", "exit", "crashed"}
    /\ idx \in 1..(Len(args.src) + 1)
    /\ exit_code \in {NoRc, 0, 1, 2}

(***************************************************************************)
(* Vocabulary of the properties.                                           *)
(***************************************************************************)
Forward == ~args.reverse
SourceCalls == {k \in 1..Len(calls) : calls[k].src > 0}
ProbeCalls == {k \in 1..Len(calls) : calls[k].src = 0}
CallsOf(i) == {k \in 1..Len(calls) : calls[k].src = i}
ErrorsOf(i, msg) == {k \in 1..Len(errors) : errors[k].src = i /\ errors[k].msg = msg}
MkdirsOf(i) == {k \in 1..Len(mkdirs) : mkdirs[k].src = i}
Sources == 1..Len(args.src)
Local(i) == resolve(args.src[i])
StampSet == {Stamps[j] : j \in 1..Len(Stamps)}

Has(cmd, w) == \E j \in 1..Len(cmd) : cmd[j] = Lit(w)
HasPair(cmd, w, v) == \E j \in 1..(Len(cmd) - 1) : cmd[j] = Lit(w) /\ cmd[j + 1] = Lit(v)
Count(cmd, w) == Cardinality({j \in 1..Len(cmd) : cmd[j] = Lit(w)})

\* the two path arguments of a copy/sync/bisync command: the first two
\* arguments after the subcommand that are not the --resync flag
PathPair(cmd) ==
    LET o == IF cmd[3] = Lit("--resync") THEN 1 ELSE 0 IN <<cmd[3 + o], cmd[4 + o]>>

\* the remote path rule: --name, else basename nesting for several sources,
\* else the destination root itself
RemoteRule(i) ==
    LET root == rstrip(args.dest, "/")
    IN  IF args.name # NameNone THEN root \o <<"/">> \o args.name
        ELSE IF Len(args.src) > 1 THEN root \o <<"/">> \o path_name(Local(i))
        ELSE root

\* x is the path base with "-<t>" appended to its final segment
Suffixed(x, base, t) ==
    LET bp == path_parts(base)
        xp == path_parts(x)
    IN  /\ bp # <<>>
        /\ Len(xp) = Len(bp)
        /\ path_anchor(x) = path_anchor(base)
        /\ \A j \in 1..Len(bp) :
              xp[j] = IF j = Len(bp) THEN bp[j] \o <<"-", t>> ELSE bp[j]

HasStamp(x) == \E j \in 1..Len(x) : x[j] \in StampSet

RECURSIVE Opts(_, _)
Opts(flag, pats) ==
    IF pats = <<>> THEN <<>> ELSE <<Lit(flag), Head(pats)>> \o Opts(flag, Tail(pats))

FilterFlags == {Lit("--exclude"), Lit("--include")}
FilterIdx(cmd) ==
    {j \in 1..Len(cmd) : cmd[j] \in FilterFlags \/ (j > 1 /\ cmd[j - 1] \in FilterFlags)}
FilterPart(cmd) ==
    IF FilterIdx(cmd) = {} THEN <<>>
    ELSE LET lo == CHOOSE j \in FilterIdx(cmd) : \A m \in FilterIdx(cmd) : j <= m
             hi == CHOOSE j \in FilterIdx(cmd) : \A m \in FilterIdx(cmd) : j >= m
         IN  SubSeq(cmd, lo, hi)

BisyncFlags ==
    {"--check-access", "--compare", "--conflict-resolve", "--resilient", "--recover",
     "--resync"}

(***************************************************************************)
(* Properties.                                                             *)
(***************************************************************************)

\* C1: when rclone is not found the program has exited with status 2 as soon
\* as it has taken a step, and it has run no external command at all
\* (neither the `rclone about` probe nor a copy/sync/bisync command).
C1_MissingBinaryRunsNothing ==
    ~found => /\ calls = <<>>
              /\ mkdirs = <<>>
              /\ pc \in {"start", "exit"}
              /\ (pc = "exit" => exit_code = 2)

C1_Witness ==
    /\ ~found /\ pc = "exit" /\ exit_code = 2
    /\ Len(args.src) = 2 /\ remote_name(args.dest) # <<>> /\ args.reverse

\* C2 as stated: whatever the options (--reverse included), a source whose
\* local path is missing or not a directory gets an error, gets no command,
\* and the loop moves on.
C2_Original ==
    \A i \in Sources :
        seen[i] \in {"missing", "file"} =>
            /\ status[i] = "skipped"
            /\ CallsOf(i) = {}
            /\ \E k \in 1..Len(errors) : errors[k].src = i

\* C2 amended: in forward direction a source whose local path is missing or
\* not a directory is skipped with an error, gets no command, and the loop
\* goes on to the next source without raising; with --reverse this holds for
\* a path that exists and is not a directory, while a missing path is created
\* by the script and skipped only when it cannot be created.
C2_Amended ==
    /\ \A i \in Sources :
        /\ ((Forward /\ seen[i] \in {"missing", "file"}) \/ (~Forward /\ seen[i] = "file"))
              => /\ status[i] = "skipped"
                 /\ CallsOf(i) = {}
                 /\ Cardinality(ErrorsOf(i, IF Forward THEN "not_a_directory"
                                                        ELSE "cannot_create")) = 1
                 /\ idx > i
                 /\ pc \in {"loop", "running", "done", "crashed"}
        /\ (~Forward /\ seen[i] = "missing" /\ status[i] = "skipped")
              => \E k \in MkdirsOf(i) : mkdirs[k].path = Local(i) /\ ~mkdirs[k].ok
        /\ (~Forward /\ seen[i] = "missing" /\ status[i] # "skipped")
              => \E k \in MkdirsOf(i) : mkdirs[k].path = Local(i) /\ mkdirs[k].ok
    /\ Forward => pc # "crashed"
    /\ pc = "done" => \A i \in Sources : status[i] \in {"skipped", "ok", "failed"}

C2_Witness ==
    /\ Forward /\ Len(args.src) = 2 /\ pc = "done"
    /\ seen[1] = "missing" /\ status[1] = "skipped" /\ status[2] = "ok"

\* C3 as stated: in bisync mode the pair (path1, path2) is (local, remote)
\* without --reverse and (remote, local) with --reverse.
C3_ReverseSwapsBisyncPaths ==
    \A k \in SourceCalls :
        args.mode = "bisync" =>
            LET i == calls[k].src
            IN  PathPair(calls[k].cmd) =
                    IF Forward THEN <<Local(i), RemoteRule(i)>>
                               ELSE <<RemoteRule(i), Local(i)>>

\* C4: a bisync command carries --check-access, --compare size,modtime,
\* --conflict-resolve <policy>, --resilient and --recover, and carries
\* --resync exactly once if and only if --resync was passed; a copy or sync
\* command carries none of these flags.
C4_BisyncFlags ==
    \A k \in SourceCalls :
        LET cmd == calls[k].cmd
        IN  IF args.mode = "bisync"
            THEN /\ cmd[2] = Lit("bisync")
                 /\ Has(cmd, "--check-access")
                 /\ HasPair(cmd, "--compare", "size,modtime")
                 /\ HasPair(cmd, "--conflict-resolve", args.conflict_resolve)
                 /\ Count(cmd, "--conflict-resolve") = 1
                 /\ Has(cmd, "--resilient")
                 /\ Has(cmd, "--recover")
                 /\ Count(cmd, "--resync") = IF args.resync THEN 1 ELSE 0
            ELSE /\ cmd[2] = Lit(args.mode)
                 /\ \A f \in BisyncFlags : ~Has(cmd, f)

C4_Witness ==
    /\ args.mode = "bisync" /\ args.resync /\ args.conflict_resolve = "path1"
    /\ args.reverse /\ SourceCalls # {}

\* C5: with --snapshot in copy or sync mode the destination argument is the
\* un-snapshotted destination (remote path forward, local path in reverse)
\* with -<timestamp> appended to its final segment, the source argument is
\* unchanged and one timestamp serves every source; without --snapshot the
\* arguments are the un-snapshotted paths; a bisync path never carries a
\* timestamp.
C5_SnapshotSuffix ==
    \E t \in StampSet :
        \A k \in SourceCalls :
            LET i == calls[k].src
                pp == PathPair(calls[k].cmd)
                plain == IF Forward THEN <<Local(i), RemoteRule(i)>>
                                    ELSE <<RemoteRule(i), Local(i)>>
            IN  IF args.mode = "bisync"
                THEN ~HasStamp(pp[1]) /\ ~HasStamp(pp[2])
                ELSE IF args.snapshot
                     THEN pp[1] = plain[1] /\ Suffixed(pp[2], plain[2], t)
                     ELSE pp = plain

C5_Witness ==
    /\ args.snapshot /\ args.mode = "sync" /\ Forward /\ args.dest = DestLocal
    /\ Len(args.src) = 2 /\ Cardinality(SourceCalls) = 2

\* C6: the filter arguments of a command are the 8 built-in patterns as
\* --exclude arguments in declared order (unless --no-default-excludes), then
\* the user's --exclude patterns in the order given, then the user's
\* --include patterns in the order given, and nothing else.
C6_FilterOrder ==
    \A k \in SourceCalls :
        LET cmd == calls[k].cmd
            want == (IF args.no_default_excludes THEN <<>>
                     ELSE Opts("--exclude", DEFAULT_EXCLUDES))
                        \o Opts("--exclude", args.exclude)
                        \o Opts("--include", args.include)
        IN  /\ FilterPart(cmd) = want
            /\ Cardinality(FilterIdx(cmd)) = Len(want)
            /\ Len(DEFAULT_EXCLUDES) = 8

C6_Witness ==
    /\ ~args.no_default_excludes /\ Len(args.exclude) = 2 /\ Len(args.include) = 2
    /\ args.exclude[1] # args.exclude[2] /\ SourceCalls # {}

\* C7: the remote path of a source is <dest root>/<name> when --name is
\* given, else <dest root>/<basename of the source> when there are several
\* sources, else the destination root without trailing slashes, in forward
\* and in reverse direction alike (a forward snapshot then suffixes it).
C7_RemotePath ==
    \A k \in SourceCalls :
        LET i == calls[k].src
            pp == PathPair(calls[k].cmd)
        IN  IF args.mode = "bisync"
            THEN {pp[1], pp[2]} = {Local(i), RemoteRule(i)}
            ELSE IF ~Forward THEN pp[1] = RemoteRule(i)
            ELSE IF args.snapshot THEN \E t \in StampSet : Suffixed(pp[2], RemoteRule(i), t)
            ELSE pp[2] = RemoteRule(i)

C7_Witness ==
    /\ args.name # NameNone /\ Len(args.src) = 2 /\ ~Forward
    /\ args.dest = DestSlash /\ Cardinality(SourceCalls) = 2

\* C8: an interrupt while an external command runs makes run() return 130,
\* never an exception; a non-zero return code marks that source alone as
\* failed, the loop goes on with the next source, and equal --src entries
\* get equal argument vectors whatever the earlier outcomes were.
C8_FailureIsPerSource ==
    /\ pc = "crashed" => \A k \in 1..Len(calls) : calls[k].rc # NoRc
    /\ \A k \in 1..Len(calls) : calls[k].how = "interrupt" => calls[k].rc = 130
    /\ \A k \in SourceCalls :
          LET i == calls[k].src
          IN  /\ calls[k].rc = NoRc => status[i] = "running"
              /\ calls[k].rc = 0 => status[i] = "ok" /\ ErrorsOf(i, "failed") = {}
              /\ calls[k].rc \notin {NoRc, 0} =>
                    /\ status[i] = "failed"
                    /\ Cardinality(ErrorsOf(i, "failed")) = 1
              /\ calls[k].rc # NoRc => idx > i /\ pc \in {"loop", "running", "done", "crashed"}
    /\ \A k1, k2 \in SourceCalls :
          args.src[calls[k1].src] = args.src[calls[k2].src] => calls[k1].cmd = calls[k2].cmd
    /\ pc = "done" => \A i \in Sources : status[i] \in {"skipped", "ok", "failed"}

C8_Witness ==
    /\ Len(args.src) = 2 /\ pc = "done" /\ args.src[1] = args.src[2]
    /\ \E k \in CallsOf(1) : calls[k].how = "interrupt" /\ calls[k].rc = 130
    /\ status[1] = "failed" /\ status[2] = "ok"

\* C9: commands run one at a time in --src order: a source that reaches its
\* command has exactly one, a skipped source none; only the newest process
\* may still be running; the `rclone about` probe runs at most once, only
\* for a destination containing ":", and has returned before the first
\* source command starts.
C9_Sequential ==
    /\ \A k \in 1..Len(calls) :
          calls[k].rc = NoRc => k = Len(calls) /\ pc \in {"probe", "running"}
    /\ \A k1, k2 \in 1..Len(calls) : k1 < k2 => calls[k1].src < calls[k2].src
    /\ \A i \in Sources :
          Cardinality(CallsOf(i)) =
              IF status[i] \in {"running", "ok", "failed"} THEN 1 ELSE 0
    /\ \A i \in Sources : status[i] # "pending" <=> i < idx \/ (i = idx /\ pc \in {"running", "crashed"})
    /\ Cardinality(ProbeCalls) <= 1
    /\ ProbeCalls # {} => Contains(args.dest, ":") /\ ProbeCalls = {1}
    /\ \A k \in ProbeCalls : calls[k].cmd[2] = Lit("about")

C9_Witness ==
    /\ Len(args.src) = 2 /\ pc = "done" /\ Len(calls) = 3
    /\ calls[1].src = 0 /\ calls[2].src = 1 /\ calls[3].src = 2

\* C10: the script creates local directories only with --reverse; there the
\* local target directory (and the timestamped directory of a copy/sync
\* snapshot) exists before the command of the source is started, and a local
\* target directory that cannot be created makes the source skipped with an
\* error, without a command, the loop going on with the next source.
C10_LocalDirectories ==
    /\ Forward => mkdirs = <<>>
    /\ ~Forward =>
          \A i \in Sources :
              /\ CallsOf(i) # {} =>
                    /\ fs[Local(i)] = "dir"
                    /\ \A k \in CallsOf(i) :
                          (args.mode # "bisync" /\ args.snapshot) =>
                              \E m \in MkdirsOf(i) :
                                  /\ mkdirs[m].ok
                                  /\ mkdirs[m].path = PathPair(calls[k].cmd)[2]
                                  /\ HasStamp(mkdirs[m].path)
              /\ (\E m \in MkdirsOf(i) : mkdirs[m].path = Local(i) /\ ~mkdirs[m].ok) =>
                    /\ status[i] = "skipped"
                    /\ CallsOf(i) = {}
                    /\ Cardinality(ErrorsOf(i, "cannot_create")) = 1
                    /\ idx > i

C10_Witness ==
    /\ ~Forward /\ args.snapshot /\ args.mode = "copy" /\ Len(args.src) = 2
    /\ seen[1] = "missing" /\ status[1] = "skipped"
    /\ seen[2] = "missing" /\ status[2] = "running"

====
